---- MODULE Spec2Model ----
(***************************************************************************)
(* Chat-with-Docs: a model of the application state kept by the App        *)
(* component (URL groups, chat log, local context, busy flags), of the     *)
(* requests it has in flight, and of the folder ingestion of               *)
(* fileProcessor (processFolder).                                          *)
(*                                                                         *)
(* Strings.  A text is a sequence of segments [s |-> fragment, n |-> k]:   *)
(* the first k characters of the fragment named s.  Its length is the sum  *)
(* of the k's, so texts of a million characters are plain values.  The     *)
(* fragment "ws" is made of whitespace only; every other fragment holds    *)
(* no whitespace at its start.  Short strings that the code trims or       *)
(* compares (group names, queries) are sequences of one-character strings. *)
(***************************************************************************)
EXTENDS Integers, Sequences, FiniteSets, Bags, TLC

\* ------------------------------------------------------------------ bounds
\* Longest FileList a folder upload hands to processFolder (SpecFolder).
MaxFiles == 3
\* Longest chat log; a handler that would make it longer is not taken.
MaxLog == 3
\* Most suggestion requests in flight at once.
MaxSuggestionsInFlight == 2

\* --------------------------------------------------------------- constants
MAX_CONTEXT_CHARS == 1000000
MAX_URLS == 50

ALLOWED_EXTENSIONS ==
    {"js", "jsx", "ts", "tsx", "py", "html", "css", "scss", "md", "json",
     "txt", "csv", "yaml", "yml", "docx", "pdf"}

\* ------------------------------------------------------------------- texts
RECURSIVE TextLength(_)
\* String.prototype.length
TextLength(t) ==
    IF t = << >> THEN 0 ELSE Head(t).n + TextLength(Tail(t))

RECURSIVE Substring0(_, _)
\* String.prototype.substring(0, k): the first k characters (all of them
\* when the text is shorter).
Substring0(t, k) ==
    IF t = << >> \/ k <= 0 THEN << >>
    ELSE IF Head(t).n <= k
         THEN << Head(t) >> \o Substring0(Tail(t), k - Head(t).n)
         ELSE << [s |-> Head(t).s, n |-> k] >>

\* `content && content.trim()`: the text is non-empty and not whitespace only.
HasContent(t) ==
    \E i \in 1..Len(t) : t[i].s # "ws" /\ t[i].n > 0

RECURSIVE Join(_, _)
\* Array.prototype.join(sep) over an array of texts.
Join(ts, sep) ==
    IF ts = << >> THEN << >>
    ELSE IF Len(ts) = 1 THEN ts[1]
    ELSE ts[1] \o sep \o Join(Tail(ts), sep)

RECURSIVE SelectSeqBy(_, _)
\* Array.prototype.filter with the predicate given as a set of kept values.
SelectSeqBy(seq, keep) ==
    IF seq = << >> THEN << >>
    ELSE (IF Head(seq) \in keep THEN << Head(seq) >> ELSE << >>)
         \o SelectSeqBy(Tail(seq), keep)

\* ------------------------------------------------------------------- files
\* String.prototype.toLowerCase on the file-name parts the model uses.
ToLowerCase(s) ==
    CASE s = "TXT" -> "txt"
      [] s = "PDF" -> "pdf"
      [] s = "Md" -> "md"
      [] OTHER -> s

\* `.${file.name.split('.').pop()?.toLowerCase()}` (the leading dot is left
\* out here and in ALLOWED_EXTENSIONS).  A file's name is kept split at its
\* dots, so a name without a dot is its own "extension".
Extension(file) == ToLowerCase(file.name[Len(file.name)])

\* The reader the extension selects.
ReaderOf(file) ==
    IF Extension(file) = "docx" THEN "readDocxFile"
    ELSE IF Extension(file) = "pdf" THEN "readPdfFile"
    ELSE "readTextFile"

\* The settled value of the reader's promise for this file: the file says
\* whether its bytes can be read/decoded, and what text they hold.
ReadFile(file) ==
    IF file.readable
    THEN [st |-> "fulfilled", reader |-> ReaderOf(file), value |-> file.text]
    ELSE [st |-> "rejected", reader |-> ReaderOf(file), value |-> << >>]

\* A file as the browser hands it over: name (split at dots), the directory
\* its webkitRelativePath starts with, the path and its length, byte size,
\* and what reading it yields.
File(dir, name, path, pathLen, size, readable, text) ==
    [dir |-> dir, name |-> name, path |-> path, pathLen |-> pathLen,
     size |-> size, readable |-> readable, text |-> text]

Chars(s, n) == IF n = 0 THEN << >> ELSE << [s |-> s, n |-> n] >>

FileA == File("docs", <<"a", "md">>, "docs/a.md", 9, 400000, TRUE, Chars("a", 400000))
FileB == File("docs", <<"b", "TXT">>, "docs/b.TXT", 10, 400000, TRUE, Chars("b", 400000))
FileC == File("docs", <<"c", "PDF">>, "docs/c.PDF", 10, 700000, TRUE, Chars("c", 400000))
FileE == File("docs", <<"e", "txt">>, "docs/e.txt", 10, 1, TRUE, Chars("e", 1))
FileWs == File("docs", <<"ws", "txt">>, "docs/ws.txt", 11, 3, TRUE, Chars("ws", 3))
FileBad == File("docs", <<"bad", "docx">>, "docs/bad.docx", 13, 2048, FALSE, << >>)
FilePng == File("docs", <<"img", "png">>, "docs/img.png", 12, 4096, TRUE, Chars("p", 4096))
FileEmpty == File("docs", <<"empty", "txt">>, "docs/empty.txt", 14, 0, TRUE, << >>)
FileMax == File("docs", <<"max", "json">>, "docs/max.json", 13, 1000000, TRUE,
                Chars("m", MAX_CONTEXT_CHARS))
FileOver == File("docs", <<"over", "csv">>, "docs/over.csv", 13, 1000001, TRUE,
                 Chars("o", MAX_CONTEXT_CHARS + 1))

FilePool ==
    {FileA, FileB, FileC, FileE, FileWs, FileBad, FilePng, FileEmpty,
     FileMax, FileOver}

\* FileLists of at most MaxFiles distinct files of the pool.
FileLists ==
    { fl \in UNION { [1..k -> FilePool] : k \in 0..MaxFiles } :
        \A i, j \in 1..Len(fl) : i # j => fl[i] # fl[j] }

\* ----------------------------------------------------------- processFolder
\* validFiles: allowed extension and size > 0, in the FileList's order.
ValidFiles(files) ==
    SelectSeqBy(files, { f \in FilePool :
                           Extension(f) \in ALLOWED_EXTENSIONS /\ f.size > 0 })

\* What the promise pushed for one file settles to: {name, content}, or null
\* when the read fails (the catch handler).
FilePromise(file) ==
    IF ReadFile(file).st = "fulfilled"
    THEN [st |-> "result", name |-> file.path, nameLen |-> file.pathLen,
          content |-> ReadFile(file).value]
    ELSE [st |-> "null"]

RECURSIVE NonNull(_)
\* .filter(Boolean) over the joined results.
NonNull(results) ==
    IF results = << >> THEN << >>
    ELSE (IF Head(results).st = "null" THEN << >> ELSE << Head(results) >>)
         \o NonNull(Tail(results))

RECURSIVE AccumulateBreakless(_, _, _)
AccumulateBreakless(allResults, totalChars, final) ==
    IF allResults = << >> THEN final
    ELSE LET r == Head(allResults) IN
         IF HasContent(r.content)
         THEN IF totalChars + TextLength(r.content) > MAX_CONTEXT_CHARS
              THEN AccumulateBreakless(Tail(allResults), totalChars, final)
              ELSE AccumulateBreakless(Tail(allResults),
                                       totalChars + TextLength(r.content),
                                       Append(final, r))
         ELSE AccumulateBreakless(Tail(allResults), totalChars, final)

RECURSIVE AccumulateUnbounded(_, _, _)
AccumulateUnbounded(allResults, totalChars, final) ==
    IF allResults = << >> THEN final
    ELSE LET r == Head(allResults) IN
         IF HasContent(r.content)
         THEN AccumulateUnbounded(Tail(allResults),
                                  totalChars + TextLength(r.content),
                                  Append(final, r))
         ELSE AccumulateUnbounded(Tail(allResults), totalChars, final)

RECURSIVE Accumulate(_, _, _)
\* The budget loop: finalProcessedFiles after walking allResults with the
\* running total totalChars.
Accumulate(allResults, totalChars, final) ==
    IF allResults = << >> THEN final
    ELSE LET r == Head(allResults) IN
         IF HasContent(r.content)
         THEN IF totalChars + TextLength(r.content) > MAX_CONTEXT_CHARS
              THEN final
              ELSE Accumulate(Tail(allResults),
                              totalChars + TextLength(r.content),
                              Append(final, r))
         ELSE Accumulate(Tail(allResults), totalChars, final)

\* `--- File: ${file.name} ---\n${file.content}`
FileBlock(r) ==
    << [s |-> "--- File: ", n |-> 10], [s |-> r.name, n |-> r.nameLen],
       [s |-> " ---\n", n |-> 5] >> \o r.content

\* finalProcessedFiles.map(block).join('\n\n')
FullContent(final) ==
    Join([i \in 1..Len(final) |-> FileBlock(final[i])],
         << [s |-> "\n\n", n |-> 2] >>)

FolderResultAbortedByFailure(files, joined) ==
    LET final == IF \E i \in 1..Len(joined) : joined[i].st = "null"
                 THEN << >>
                 ELSE Accumulate(NonNull(joined), 0, << >>) IN
    [fullContent |-> FullContent(final),
     processedCount |-> Len(final),
     totalValidFileCount |-> Len(ValidFiles(files)),
     finalProcessedFiles |-> final]

\* The value processFolder resolves with, given the joined promise results.
FolderResult(files, joined) ==
    LET final == Accumulate(NonNull(joined), 0, << >>) IN
    [fullContent |-> FullContent(final),
     processedCount |-> Len(final),
     totalValidFileCount |-> Len(ValidFiles(files)),
     finalProcessedFiles |-> final]

PromiseAllInSettlementOrder(promises, settled) ==
    [k \in 1..Len(settled) |-> promises[settled[k]]]

\* Promise.all(filePromises): the settled values in the order of the
\* promises, whatever the order they settled in.
PromiseAll(promises, settled) == promises

\* processFolder(files), all of it: every promise settled, joined in the
\* order of validFiles.
processFolder(files) ==
    FolderResult(files,
                 [i \in 1..Len(ValidFiles(files)) |-> FilePromise(ValidFiles(files)[i])])


\* ------------------------------------------------------------------- state
VARIABLES
    urlGroups,               \* useState<URLGroup[]>: sequence of [id, name, urls]
    activeUrlGroupId,        \* useState<string>
    chatMessages,            \* useState<ChatMessage[]>
    isLoading,               \* useState(false): an answer is awaited
    isFetchingSuggestions,   \* useState(false)
    initialQuerySuggestions, \* useState<string[]>
    localContext,            \* useState<LocalContext | null>
    isProcessingFiles,       \* useState(false)
    apiKey,                  \* process.env.API_KEY is set
    answersInFlight,         \* answer calls awaiting the backend (set)
    suggestionsInFlight,     \* suggestion calls awaiting the backend (bag)
    readsInFlight,           \* file/folder reads not yet settled (set)
    pfFiles,                 \* processFolder: the FileList it was called with
    pfPromises,              \* processFolder: filePromises, each pending or settled
    pfSettled,               \* processFolder: indices in the order they settled
    pfReturn,                \* processFolder: the value it resolved with
    lastOp                   \* history: the handler that ran last, and its branch

appVars ==
    << urlGroups, activeUrlGroupId, chatMessages, isLoading,
       isFetchingSuggestions, initialQuerySuggestions, localContext,
       isProcessingFiles, apiKey, answersInFlight, suggestionsInFlight,
       readsInFlight >>

pfVars == << pfFiles, pfPromises, pfSettled, pfReturn >>

vars == << appVars, pfVars, lastOp >>

\* ------------------------------------------------------------ small values
USER == "user"
MODEL == "model"
SYSTEM == "system"

\* A message text: the template of the source and what it interpolates.
MsgText(tpl, strs, num, flag) ==
    [tpl |-> tpl, strs |-> strs, num |-> num, flag |-> flag]

NoGroupId == << "", 0 >>

\* A message id `${prefix}-${Date.now()}` (the welcome message's id also
\* holds the active group's id).
MsgId(prefix, group, stamp) == [prefix |-> prefix, group |-> group, stamp |-> stamp]

\* A ChatMessage; isLoading is FALSE where the source leaves it undefined.
Message(id, text, sender, loading) ==
    [id |-> id, text |-> text, sender |-> sender, isLoading |-> loading]

\* localContext = null
NoContext == [type |-> "none", name |-> << >>, content |-> << >>, count |-> 0]

NoReturn == [st |-> "pending"]

Op(op, branch) == [op |-> op, branch |-> branch]

\* A handler that returns before it sets any state.
Ignored(op, branch) ==
    /\ lastOp' = Op(op, branch)
    /\ UNCHANGED << appVars, pfVars >>

\* String.prototype.trim on a sequence of characters.
RECURSIVE TrimStart(_)
TrimStart(cs) ==
    IF cs # << >> /\ Head(cs) = " " THEN TrimStart(Tail(cs)) ELSE cs

RECURSIVE TrimEnd(_)
TrimEnd(cs) ==
    IF cs # << >> /\ cs[Len(cs)] = " "
    THEN TrimEnd(SubSeq(cs, 1, Len(cs) - 1)) ELSE cs

Trim(cs) == TrimEnd(TrimStart(cs))

\* Array.prototype.includes
Includes(seq, x) == \E i \in 1..Len(seq) : seq[i] = x

\* Ids are `${prefix}-${Date.now()}`.  Handlers that create ids run in
\* separate event-loop tasks, apart by a user gesture or a network round
\* trip, and read distinct clock values.  Of the clock value only that
\* distinctness is kept: a new id takes the least stamp that makes it differ
\* from every id of its prefix the state still holds.
LeastFree(used) ==
    CHOOSE n \in 1..(Cardinality(used) + 1) :
        /\ n \notin used
        /\ \A m \in 1..(n - 1) : m \in used

\* The ids a new message must differ from: those of the log it is appended
\* to and of the placeholders whose calls are pending.
HeldIds(log) ==
    { log[i].id : i \in 1..Len(log) } \cup { r.placeholder.id : r \in answersInFlight }

FreshMsgId(prefix, group, log) ==
    MsgId(prefix, group,
          LeastFree({ id.stamp : id \in { h \in HeldIds(log) :
                                            h.prefix = prefix /\ h.group = group } }))

\* `group-${Date.now()}`
FreshGroupId(groups) ==
    << "group", LeastFree({ groups[i].id[2] : i \in { j \in 1..Len(groups) :
                                                        groups[j].id[1] = "group" } }) >>

\* ------------------------------------------------------------------ groups
GEMINI_DOCS_URLS == [i \in 1..9 |-> i]
MODEL_CAPABILITIES_URLS == [i \in 1..15 |-> 9 + i]

GeminiOverviewName == << "G", "e", "m", "i", "n", "i", " ", "d", "o", "c", "s" >>
ModelCapabilitiesName == << "M", "o", "d", "e", "l", "s" >>

INITIAL_URL_GROUPS ==
    << [id |-> << "gemini-overview", 0 >>, name |-> GeminiOverviewName,
        urls |-> GEMINI_DOCS_URLS],
       [id |-> << "model-capabilities", 0 >>, name |-> ModelCapabilitiesName,
        urls |-> MODEL_CAPABILITIES_URLS] >>

\* urlGroups.find(group => group.id === id): its index, 0 when there is none.
FindGroup(groups, id) ==
    IF \E i \in 1..Len(groups) : groups[i].id = id
    THEN CHOOSE i \in 1..Len(groups) :
            /\ groups[i].id = id
            /\ \A j \in 1..(i - 1) : groups[j].id # id
    ELSE 0

\* currentUrlsForChat = activeGroup ? activeGroup.urls : []
UrlsForChat(groups, active) ==
    IF FindGroup(groups, active) = 0 THEN << >>
    ELSE groups[FindGroup(groups, active)].urls

currentUrlsForChat == UrlsForChat(urlGroups, activeUrlGroupId)


\* ----------------------------------------------------------- geminiService
\* The request generateContentWithUrlContext hands to models.generateContent:
\* the urlContext tool only when there are URLs, no response MIME type.
AnswerCall(prompt, urls, fileContent) ==
    [tools |-> IF Len(urls) > 0 THEN << urls >> ELSE << >>,
     responseMimeType |-> "",
     prompt |-> prompt,
     fileContent |-> fileContent]

SuggestionCallWithTool(urls) ==
    [tools |-> << urls >>, responseMimeType |-> "application/json",
     prompt |-> << >>, fileContent |-> << >>, urls |-> urls]

\* The request getInitialSuggestions hands to models.generateContent: the
\* URLs go into the prompt text, JSON response mode, no tools.
SuggestionCall(urls) ==
    [tools |-> << >>, responseMimeType |-> "application/json",
     prompt |-> << >>, fileContent |-> << >>, urls |-> urls]

\* An error models.generateContent rejects with: whether it is an Error,
\* which of the phrases the catch blocks look for its message holds ("" when
\* the message is empty, "other" when it holds neither), and its type.
BackendError(isError, message, type) ==
    [isError |-> isError, message |-> message, type |-> type]

BackendErrors ==
    { BackendError(TRUE, "API key not valid", ""),
      BackendError(TRUE, "quota", ""),
      BackendError(TRUE, "other", "GoogleGenAIError"),
      BackendError(TRUE, "other", ""),
      BackendError(FALSE, "", "") }

NoError == BackendError(FALSE, "", "none")

\* What models.generateContent settles to for an answer call: response.text
\* (possibly empty), or an error.
AnswerOutcomes ==
    { [st |-> "fulfilled", text |-> << "answer" >>, error |-> NoError],
      [st |-> "fulfilled", text |-> << >>, error |-> NoError] }
    \cup { [st |-> "rejected", text |-> << >>, error |-> e] : e \in BackendErrors }

\* The message of the Error the catch block of generateContentWithUrlContext
\* throws for a backend error.
AnswerErrorMessage(e) ==
    IF e.isError
    THEN IF e.message = "API key not valid" THEN << "api-key-invalid" >>
         ELSE IF e.message = "quota" THEN << "quota-exceeded" >>
         ELSE IF e.type = "GoogleGenAIError" /\ e.message # ""
              THEN << "gemini-api-error", e.message >>
         ELSE << "no-response", e.message >>
    ELSE << "unknown-error" >>

\* The message of the Error the catch block of getInitialSuggestions throws.
SuggestionErrorMessage(e) ==
    IF e.isError
    THEN IF e.message = "API key not valid" THEN << "suggestions-api-key-invalid" >>
         ELSE << "no-initial-suggestions", e.message >>
    ELSE << "unknown-error-suggestions" >>

\* A JSON document as JSON.parse sees it: whether it parses, and then the
\* parsed value: its type, whether it has a "suggestions" member that is an
\* array, and that array's items (each a string or not).
Json(parses, type, isArray, items) ==
    [parses |-> parses, type |-> type, isArray |-> isArray, items |-> items]

Str(cs) == [isString |-> TRUE, chars |-> cs]
NotStr == [isString |-> FALSE, chars |-> << >>]

\* response.text of a suggestion call: empty, or a document, bare or wrapped
\* in a ``` fence (a fence around nothing leaves no group 2 to unwrap).
RespText(empty, fenced, innerEmpty, json) ==
    [empty |-> empty, fenced |-> fenced, innerEmpty |-> innerEmpty, json |-> json]

TwoSuggestions == Json(TRUE, "object", TRUE, << Str(<< "a" >>), Str(<< "b" >>) >>)
FiveSuggestions ==
    Json(TRUE, "object", TRUE,
         << Str(<< "a" >>), NotStr, Str(<< " " >>), Str(<< "c" >>),
            Str(<< "d" >>), Str(<< "e" >>) >>)
NotJson == Json(FALSE, "", FALSE, << >>)
JsonNull == Json(TRUE, "null", FALSE, << >>)
NoSuggestionsMember == Json(TRUE, "object", FALSE, << >>)

\* What a suggestion call settles to.
SuggestionOutcomes ==
    { [st |-> "fulfilled", text |-> RespText(FALSE, FALSE, FALSE, TwoSuggestions), error |-> NoError],
      [st |-> "fulfilled", text |-> RespText(FALSE, TRUE, FALSE, FiveSuggestions), error |-> NoError],
      [st |-> "fulfilled", text |-> RespText(FALSE, FALSE, FALSE, NotJson), error |-> NoError],
      [st |-> "fulfilled", text |-> RespText(FALSE, TRUE, TRUE, NotJson), error |-> NoError],
      [st |-> "fulfilled", text |-> RespText(FALSE, FALSE, FALSE, JsonNull), error |-> NoError],
      [st |-> "fulfilled", text |-> RespText(FALSE, FALSE, FALSE, NoSuggestionsMember), error |-> NoError],
      [st |-> "fulfilled", text |-> RespText(TRUE, FALSE, FALSE, NotJson), error |-> NoError],
      [st |-> "rejected", text |-> RespText(TRUE, FALSE, FALSE, NotJson),
       error |-> BackendError(TRUE, "quota", "")] }

RECURSIVE StringsOf(_)
\* parsed.suggestions.filter(s => typeof s === 'string')
StringsOf(items) ==
    IF items = << >> THEN << >>
    ELSE (IF Head(items).isString THEN << Head(items).chars >> ELSE << >>)
         \o StringsOf(Tail(items))

SliceUncapped(seq, k) == seq

\* Array.prototype.slice(0, k)
Slice0(seq, k) == SubSeq(seq, 1, IF Len(seq) < k THEN Len(seq) ELSE k)


\* The try block of fetchAndSetInitialSuggestions on response.text: the
\* suggestions it keeps and the notice it posts ("fmt", "parse" or "").
ParseSuggestions(text) ==
    IF text.empty THEN [suggestions |-> << >>, notice |-> ""]
    ELSE IF (text.fenced /\ text.innerEmpty) \/ ~text.json.parses
         THEN [suggestions |-> << >>, notice |-> "parse"]
    ELSE IF text.json.type = "object" /\ text.json.isArray
         THEN [suggestions |-> StringsOf(text.json.items), notice |-> ""]
    ELSE [suggestions |-> << >>, notice |-> "fmt"]

\* ----------------------------------------------------------------- effects
\* The message the first effect builds.  It replaces the whole log, so no
\* other welcome id is left to differ from.
WelcomeMessage(groups, active) ==
    Message(MsgId("system-welcome", active, 1),
            IF ~apiKey
            THEN MsgText("welcome-api-key-missing", << >>, 0, FALSE)
            ELSE MsgText("welcome",
                         IF FindGroup(groups, active) = 0 THEN << "none" >>
                         ELSE groups[FindGroup(groups, active)].name,
                         0, FALSE),
            SYSTEM, FALSE)

WelcomeEffectKeepingContext(groups, active) ==
    /\ localContext' = localContext
    /\ chatMessages' = << WelcomeMessage(groups, active) >>

\* useEffect(..., [activeUrlGroupId, urlGroups]): runs after a render in
\* which either changed identity.
WelcomeEffect(groups, active) ==
    /\ localContext' = NoContext
    /\ chatMessages' = << WelcomeMessage(groups, active) >>

SuggestionEffectWithoutKey(urls) ==
    IF Len(urls) > 0
    THEN /\ BagCardinality(suggestionsInFlight) < MaxSuggestionsInFlight
         /\ isFetchingSuggestions' = TRUE
         /\ initialQuerySuggestions' = << >>
         /\ suggestionsInFlight' =
                suggestionsInFlight (+) SetToBag({ SuggestionCall(urls) })
    ELSE /\ initialQuerySuggestions' = << >>
         /\ UNCHANGED << isFetchingSuggestions, suggestionsInFlight >>

\* useEffect(..., [currentUrlsForChat, fetchAndSetInitialSuggestions]), with
\* fetchAndSetInitialSuggestions up to its await: runs after a render in
\* which the active group's urls array changed identity.
SuggestionEffect(urls) ==
    IF Len(urls) > 0 /\ apiKey
    THEN /\ BagCardinality(suggestionsInFlight) < MaxSuggestionsInFlight
         /\ isFetchingSuggestions' = TRUE
         /\ initialQuerySuggestions' = << >>
         /\ suggestionsInFlight' =
                suggestionsInFlight (+) SetToBag({ SuggestionCall(urls) })
    ELSE /\ initialQuerySuggestions' = << >>
         /\ UNCHANGED << isFetchingSuggestions, suggestionsInFlight >>

\* -------------------------------------------------------------------- Init
NoFolderJob ==
    /\ pfFiles = << >>
    /\ pfPromises = << >>
    /\ pfSettled = << >>
    /\ pfReturn = NoReturn

\* The state after the first render and its two effects.
InitApp ==
    /\ apiKey \in BOOLEAN
    /\ urlGroups = INITIAL_URL_GROUPS
    /\ activeUrlGroupId = INITIAL_URL_GROUPS[1].id
    /\ chatMessages =
          << WelcomeMessage(INITIAL_URL_GROUPS, INITIAL_URL_GROUPS[1].id) >>
    /\ isLoading = FALSE
    /\ isFetchingSuggestions = apiKey
    /\ initialQuerySuggestions = << >>
    /\ localContext = NoContext
    /\ isProcessingFiles = FALSE
    /\ answersInFlight = { }
    /\ suggestionsInFlight =
          IF apiKey THEN SetToBag({ SuggestionCall(INITIAL_URL_GROUPS[1].urls) })
          ELSE EmptyBag
    /\ readsInFlight = { }
    /\ lastOp = Op("mount", "")

Init == InitApp /\ NoFolderJob


\* ------------------------------------------------------------- user inputs
\* What the user types into the URL field: whether it trims to nothing,
\* whether `new URL(...)` accepts it, and the URL it names.
UrlInput(blank, parses, url) == [blank |-> blank, parses |-> parses, url |-> url]

UrlInputs ==
    { UrlInput(TRUE, FALSE, 0), UrlInput(FALSE, FALSE, 0),
      UrlInput(FALSE, TRUE, 25) }

\* The URLs whose remove button the user presses.
RemovableUrls == { 25 }

\* What the user types into the group-name field.
NameInputs ==
    { << " " >>, << " ", "A", " " >>, ModelCapabilitiesName }

\* What the user types into the chat box.
Queries == { << " " >>, << "q" >> }

\* The files offered to a single-file upload and the FileLists offered to a
\* folder upload in Spec (SpecFolder runs processFolder on all of FileLists).
FileInputs == { FileE, FileMax, FileOver, FileBad, FilePng }

FolderInputs ==
    { << FileMax >>, << FileA, FileB, FileC >>, << FilePng, FileEmpty >>,
      << FileE, FileBad >> }

\* ------------------------------------------------------------- URL handlers
RECURSIVE Without(_, _)
\* urls.filter(url => url !== x)
Without(seq, x) ==
    IF seq = << >> THEN << >>
    ELSE (IF Head(seq) # x THEN << Head(seq) >> ELSE << >>) \o Without(Tail(seq), x)

\* App.handleAddUrl: the updater of setUrlGroups.
AddUrlToGroups(groups, active, url) ==
    [i \in 1..Len(groups) |->
        IF groups[i].id = active
           /\ Len(groups[i].urls) < MAX_URLS
           /\ ~Includes(groups[i].urls, url)
        THEN [groups[i] EXCEPT !.urls = Append(@, url)]
        ELSE groups[i]]

\* App.handleRemoveUrl: the updater of setUrlGroups.
RemoveUrlFromGroups(groups, active, urlToRemove) ==
    [i \in 1..Len(groups) |->
        IF groups[i].id = active
        THEN [groups[i] EXCEPT !.urls = Without(@, urlToRemove)]
        ELSE groups[i]]

AddUrlUnchecked(in) ==
    IF in.blank \/ ~in.parses
    THEN Ignored("handleAddUrl", "rejected")
    ELSE LET groups == [i \in 1..Len(urlGroups) |->
                           IF urlGroups[i].id = activeUrlGroupId
                           THEN [urlGroups[i] EXCEPT !.urls = Append(@, in.url)]
                           ELSE urlGroups[i]] IN
         /\ lastOp' = Op("handleAddUrl", "added")
         /\ urlGroups' = groups
         /\ WelcomeEffect(groups, activeUrlGroupId)
         /\ SuggestionEffect(UrlsForChat(groups, activeUrlGroupId))
         /\ UNCHANGED << activeUrlGroupId, isLoading, isProcessingFiles, apiKey,
                         answersInFlight, readsInFlight, pfVars >>

\* KnowledgeBaseManager.handleAddUrl, and App.handleAddUrl when it passes
\* the field's checks.  setUrlGroups gets a new array, so the welcome
\* effect runs; the active group's urls array is new when the URL went in,
\* so the suggestion effect runs then.
handleAddUrl(in) ==
    IF in.blank \/ ~in.parses
       \/ Len(currentUrlsForChat) >= MAX_URLS
       \/ Includes(currentUrlsForChat, in.url)
    THEN Ignored("handleAddUrl", "rejected")
    ELSE LET groups == AddUrlToGroups(urlGroups, activeUrlGroupId, in.url) IN
         /\ lastOp' = Op("handleAddUrl", "added")
         /\ urlGroups' = groups
         /\ WelcomeEffect(groups, activeUrlGroupId)
         /\ IF UrlsForChat(groups, activeUrlGroupId) # currentUrlsForChat
            THEN SuggestionEffect(UrlsForChat(groups, activeUrlGroupId))
            ELSE UNCHANGED << initialQuerySuggestions,
                              isFetchingSuggestions, suggestionsInFlight >>
         /\ UNCHANGED << activeUrlGroupId, isLoading, isProcessingFiles, apiKey,
                         answersInFlight, readsInFlight, pfVars >>

\* The remove button of a listed URL: App.handleRemoveUrl.  filter() makes
\* a new urls array, so both effects run.
handleRemoveUrl(url) ==
    LET groups == RemoveUrlFromGroups(urlGroups, activeUrlGroupId, url) IN
    /\ Includes(currentUrlsForChat, url)
    /\ lastOp' = Op("handleRemoveUrl", "removed")
    /\ urlGroups' = groups
    /\ WelcomeEffect(groups, activeUrlGroupId)
    /\ SuggestionEffect(UrlsForChat(groups, activeUrlGroupId))
    /\ UNCHANGED << activeUrlGroupId, isLoading, isProcessingFiles, apiKey,
                    answersInFlight, readsInFlight, pfVars >>

\* ----------------------------------------------------------- group handlers
\* The group <select>: onSetGroupId(e.target.value) with another option.
\* Both effects run: the active id changed, and with it the urls array.
handleSelectGroup(id) ==
    /\ FindGroup(urlGroups, id) # 0
    /\ id # activeUrlGroupId
    /\ lastOp' = Op("handleSelectGroup", "selected")
    /\ activeUrlGroupId' = id
    /\ WelcomeEffect(urlGroups, id)
    /\ SuggestionEffect(UrlsForChat(urlGroups, id))
    /\ UNCHANGED << urlGroups, isLoading, isProcessingFiles, apiKey,
                    answersInFlight, readsInFlight, pfVars >>

AddGroupUnchecked(name) ==
    IF Trim(name) = << >>
    THEN Ignored("handleAddGroup", "rejected")
    ELSE LET newGroup == [id |-> FreshGroupId(urlGroups), name |-> Trim(name),
                          urls |-> << >>]
             groups == Append(urlGroups, newGroup) IN
         /\ lastOp' = Op("handleAddGroup", "added")
         /\ urlGroups' = groups
         /\ activeUrlGroupId' = newGroup.id
         /\ WelcomeEffect(groups, newGroup.id)
         /\ SuggestionEffect(newGroup.urls)
         /\ UNCHANGED << isLoading, isProcessingFiles, apiKey, answersInFlight,
                         readsInFlight, pfVars >>

\* AddGroupModal.handleAdd (a blank name does nothing) and App.handleAddGroup
\* with the trimmed name.  Both effects run for the new, empty group.
handleAddGroup(name) ==
    IF Trim(name) = << >>
       \/ \E i \in 1..Len(urlGroups) : urlGroups[i].name = Trim(Trim(name))
    THEN Ignored("handleAddGroup", "rejected")
    ELSE LET newGroup == [id |-> FreshGroupId(urlGroups), name |-> Trim(Trim(name)),
                          urls |-> << >>]
             groups == Append(urlGroups, newGroup) IN
         /\ lastOp' = Op("handleAddGroup", "added")
         /\ urlGroups' = groups
         /\ activeUrlGroupId' = newGroup.id
         /\ WelcomeEffect(groups, newGroup.id)
         /\ SuggestionEffect(newGroup.urls)
         /\ UNCHANGED << isLoading, isProcessingFiles, apiKey, answersInFlight,
                         readsInFlight, pfVars >>

RECURSIVE WithoutGroup(_, _)
\* urlGroups.filter(g => g.id !== groupId)
WithoutGroup(groups, groupId) ==
    IF groups = << >> THEN << >>
    ELSE (IF Head(groups).id # groupId THEN << Head(groups) >> ELSE << >>)
         \o WithoutGroup(Tail(groups), groupId)

RemoveGroupKeepingActive(groupId, confirmed) ==
    IF Len(urlGroups) <= 1
    THEN Ignored("handleRemoveGroup", "rejected")
    ELSE IF ~confirmed
    THEN Ignored("handleRemoveGroup", "declined")
    ELSE LET newGroups == WithoutGroup(urlGroups, groupId) IN
         /\ lastOp' = Op("handleRemoveGroup", "removed")
         /\ urlGroups' = newGroups
         /\ activeUrlGroupId' = activeUrlGroupId
         /\ WelcomeEffect(newGroups, activeUrlGroupId)
         /\ SuggestionEffect(UrlsForChat(newGroups, activeUrlGroupId))
         /\ UNCHANGED << isLoading, isProcessingFiles, apiKey, answersInFlight,
                         readsInFlight, pfVars >>

RemoveGroupUnguarded(groupId, confirmed) ==
    IF ~confirmed
    THEN Ignored("handleRemoveGroup", "declined")
    ELSE LET newGroups == WithoutGroup(urlGroups, groupId)
             active == IF activeUrlGroupId = groupId /\ newGroups # << >>
                       THEN newGroups[1].id ELSE activeUrlGroupId IN
         /\ lastOp' = Op("handleRemoveGroup", "removed")
         /\ urlGroups' = newGroups
         /\ activeUrlGroupId' = active
         /\ WelcomeEffect(newGroups, active)
         /\ SuggestionEffect(UrlsForChat(newGroups, active))
         /\ UNCHANGED << isLoading, isProcessingFiles, apiKey, answersInFlight,
                         readsInFlight, pfVars >>

\* App.handleRemoveGroup(groupId), with the user's answer to window.confirm.
\* When it removes, setUrlGroups gets a new array: the welcome effect runs;
\* the suggestion effect runs when the active group's urls array is another.
handleRemoveGroup(groupId, confirmed) ==
    IF Len(urlGroups) <= 1
    THEN Ignored("handleRemoveGroup", "rejected")
    ELSE IF ~confirmed
    THEN Ignored("handleRemoveGroup", "declined")
    ELSE LET newGroups == WithoutGroup(urlGroups, groupId)
             active == IF activeUrlGroupId = groupId
                       THEN newGroups[1].id ELSE activeUrlGroupId IN
         /\ lastOp' = Op("handleRemoveGroup", "removed")
         /\ urlGroups' = newGroups
         /\ activeUrlGroupId' = active
         /\ WelcomeEffect(newGroups, active)
         /\ IF active # activeUrlGroupId
            THEN SuggestionEffect(UrlsForChat(newGroups, active))
            ELSE UNCHANGED << initialQuerySuggestions,
                              isFetchingSuggestions, suggestionsInFlight >>
         /\ UNCHANGED << isLoading, isProcessingFiles, apiKey, answersInFlight,
                         readsInFlight, pfVars >>

\* The remove-group button: onRemoveGroup(activeUrlGroupId).  The button is
\* disabled while there is one group; the handler's own guard makes a call
\* in that state change nothing.
RemoveGroupButton(confirmed) == handleRemoveGroup(activeUrlGroupId, confirmed)


\* ---------------------------------------------------------- upload handlers
\* setChatMessages(prev => [...prev, message])
Post(log, message) == Append(log, message)

\* A system message appended to the log.
SystemMessage(prefix, text) ==
    Message(FreshMsgId(prefix, NoGroupId, chatMessages), text, SYSTEM, FALSE)

\* The upload buttons are disabled while a context is attached or a read is
\* being processed.
UploadEnabled == localContext = NoContext /\ ~isProcessingFiles

\* App.handleFileUpload(file) up to the read it starts.
handleFileUpload(file) ==
    /\ UploadEnabled
    /\ IF Extension(file) \notin ALLOWED_EXTENSIONS
       THEN /\ Len(chatMessages) < MaxLog
            /\ lastOp' = Op("handleFileUpload", "unsupported")
            /\ chatMessages' =
                  Post(chatMessages,
                       SystemMessage("sys-file-error-type", MsgText("unsupported-type", file.name, 0, FALSE)))
            /\ UNCHANGED << isProcessingFiles, readsInFlight >>
       ELSE /\ isProcessingFiles' = TRUE
            /\ lastOp' = Op("handleFileUpload", "started")
            /\ readsInFlight' = readsInFlight \cup { [kind |-> "file", files |-> << file >>] }
            /\ UNCHANGED chatMessages
    /\ UNCHANGED << urlGroups, activeUrlGroupId, isLoading, isFetchingSuggestions,
                    initialQuerySuggestions, localContext,
                    apiKey, answersInFlight, suggestionsInFlight, pfVars >>

FileContextUntruncated(file, content) ==
    [type |-> "file", name |-> file.name, content |-> content, count |-> 1,
     wasTruncated |-> FALSE]

\* The then-callback of handleFileUpload: the context it attaches, and
\* whether it cut the content.
FileContext(file, content) ==
    IF TextLength(content) > MAX_CONTEXT_CHARS
    THEN [type |-> "file", name |-> file.name,
          content |-> Substring0(content, MAX_CONTEXT_CHARS), count |-> 1,
          wasTruncated |-> TRUE]
    ELSE [type |-> "file", name |-> file.name, content |-> content, count |-> 1,
          wasTruncated |-> FALSE]

Context(c) == [type |-> c.type, name |-> c.name, content |-> c.content, count |-> c.count]

\* The read of handleFileUpload settles: then / catch, and finally.
FileReadSettles(job) ==
    LET file == job.files[1]
        read == ReadFile(file) IN
    /\ job \in readsInFlight
    /\ job.kind = "file"
    /\ Len(chatMessages) < MaxLog
    /\ readsInFlight' = readsInFlight \ { job }
    /\ IF read.st = "fulfilled"
       THEN /\ lastOp' = Op("FileReadSettles", "attached")
            /\ localContext' = Context(FileContext(file, read.value))
            /\ chatMessages' =
                  Post(chatMessages,
                       SystemMessage("sys-file-upload", MsgText("file-read", file.name, 0,
                                             FileContext(file, read.value).wasTruncated)))
       ELSE /\ lastOp' = Op("FileReadSettles", "failed")
            /\ chatMessages' =
                  Post(chatMessages,
                       SystemMessage("sys-file-error-read", MsgText("file-read-error", file.name, 0, FALSE)))
            /\ UNCHANGED localContext
    /\ isProcessingFiles' = FALSE
    /\ UNCHANGED << urlGroups, activeUrlGroupId, isLoading, isFetchingSuggestions,
                    initialQuerySuggestions, apiKey,
                    answersInFlight, suggestionsInFlight, pfVars >>

\* files[0]?.webkitRelativePath.split('/')[0] || default
FolderName(files) ==
    IF files = << >> \/ files[1].dir = "" THEN "uploaded-folder" ELSE files[1].dir

\* App.handleFolderUpload(files) up to the processFolder call it starts
\* (handleFolderSelect calls it for a non-empty FileList only).
handleFolderUpload(files) ==
    /\ UploadEnabled
    /\ Len(files) > 0
    /\ Len(chatMessages) < MaxLog
    /\ isProcessingFiles' = TRUE
    /\ lastOp' = Op("handleFolderUpload", "started")
    /\ chatMessages' =
          Post(chatMessages,
               SystemMessage("sys-folder-processing", MsgText("folder-processing", << FolderName(files) >>, 0, FALSE)))
    /\ readsInFlight' = readsInFlight \cup { [kind |-> "folder", files |-> files] }
    /\ UNCHANGED << urlGroups, activeUrlGroupId, isLoading, isFetchingSuggestions,
                    initialQuerySuggestions, localContext,
                    apiKey, answersInFlight, suggestionsInFlight, pfVars >>

\* The context the then-callback of handleFolderUpload attaches.
FolderContext(files, result) ==
    [type |-> "folder", name |-> << FolderName(files) >>,
     content |-> result.fullContent, count |-> result.processedCount]

FolderMessageCountingAll(files, result) ==
    MsgText("folder-read", << FolderName(files) >>,
            IF result.processedCount < result.totalValidFileCount
            THEN result.totalValidFileCount ELSE 0,
            result.processedCount < result.totalValidFileCount)

\* The text of the success message: the count read and, when fewer were
\* read than were valid, how many were not loaded (0: no such notice).
FolderMessage(files, result) ==
    MsgText("folder-read", << FolderName(files) >>,
            IF result.processedCount < result.totalValidFileCount
            THEN result.totalValidFileCount - result.processedCount ELSE 0,
            result.processedCount < result.totalValidFileCount)

\* processFolder resolves (it never rejects: each read has its own catch):
\* the then-callback of handleFolderUpload, and finally.
FolderReadSettles(job) ==
    LET result == processFolder(job.files) IN
    /\ job \in readsInFlight
    /\ job.kind = "folder"
    /\ Len(chatMessages) < MaxLog
    /\ readsInFlight' = readsInFlight \ { job }
    /\ IF result.processedCount = 0
       THEN /\ lastOp' = Op("FolderReadSettles", "empty")
            /\ chatMessages' =
                  Post(chatMessages,
                       SystemMessage("sys-folder-empty", MsgText("folder-empty", << FolderName(job.files) >>,
                                             0, FALSE)))
            /\ UNCHANGED localContext
       ELSE /\ lastOp' = Op("FolderReadSettles", "attached")
            /\ localContext' = FolderContext(job.files, result)
            /\ chatMessages' =
                  Post(chatMessages,
                       SystemMessage("sys-folder-upload", FolderMessage(job.files, result)))
    /\ isProcessingFiles' = FALSE
    /\ UNCHANGED << urlGroups, activeUrlGroupId, isLoading, isFetchingSuggestions,
                    initialQuerySuggestions, apiKey,
                    answersInFlight, suggestionsInFlight, pfVars >>

\* App.handleLocalContextRemove (its button shows while a context is attached).
handleLocalContextRemove ==
    /\ localContext # NoContext
    /\ Len(chatMessages) < MaxLog
    /\ localContext' = NoContext
    /\ lastOp' = Op("handleLocalContextRemove", "removed")
    /\ chatMessages' =
          Post(chatMessages,
               SystemMessage("sys-context-remove", MsgText("context-removed", localContext.name, 0, FALSE)))
    /\ UNCHANGED << urlGroups, activeUrlGroupId, isLoading, isFetchingSuggestions,
                    initialQuerySuggestions, isProcessingFiles,
                    apiKey, answersInFlight, suggestionsInFlight, readsInFlight,
                    pfVars >>


\* ------------------------------------------------------------ chat handlers
SendBlockedIgnoringBusy(query) ==
    Trim(query) = << >> \/ isFetchingSuggestions

\* `if (!query.trim() || isLoading || isFetchingSuggestions) return;`
SendBlocked(query) ==
    Trim(query) = << >> \/ isLoading \/ isFetchingSuggestions

\* App.handleSendMessage(query) up to its await: the three early returns,
\* the missing-key message, or the user message, the placeholder and the
\* call (with the URLs and the local context of this render).
handleSendMessage(query) ==
    IF SendBlocked(query)
    THEN Ignored("handleSendMessage",
                 IF Trim(query) = << >> THEN "blank" ELSE "busy")
    ELSE IF ~apiKey
    THEN /\ Len(chatMessages) < MaxLog
         /\ lastOp' = Op("handleSendMessage", "no-key")
         /\ chatMessages' =
               Post(chatMessages,
                    SystemMessage("error-apikey",
                                  MsgText("api-key-missing", << >>, 0, FALSE)))
         /\ UNCHANGED << urlGroups, activeUrlGroupId, isLoading,
                         isFetchingSuggestions, initialQuerySuggestions,
                         localContext, isProcessingFiles,
                         apiKey, answersInFlight, suggestionsInFlight,
                         readsInFlight, pfVars >>
    ELSE LET userMessage == Message(FreshMsgId("user", NoGroupId, chatMessages),
                                    MsgText("query", query, 0, FALSE), USER, FALSE)
             modelPlaceholderMessage ==
                 Message(FreshMsgId("model-response", NoGroupId, chatMessages),
                         MsgText("thinking", << >>, 0, FALSE), MODEL, TRUE) IN
         /\ Len(chatMessages) + 2 <= MaxLog
         /\ isLoading' = TRUE
         /\ lastOp' = Op("handleSendMessage", "sent")
         /\ initialQuerySuggestions' = << >>
         /\ chatMessages' = chatMessages \o << userMessage, modelPlaceholderMessage >>
         /\ answersInFlight' = answersInFlight \cup
               { [placeholder |-> modelPlaceholderMessage,
                  call |-> AnswerCall(query, currentUrlsForChat, localContext.content)] }
         /\ UNCHANGED << urlGroups, activeUrlGroupId, isFetchingSuggestions,
                         localContext, isProcessingFiles, apiKey,
                         suggestionsInFlight, readsInFlight, pfVars >>

\* The send button / Enter in the chat box.
SendClick(query) == handleSendMessage(query)

\* App.handleSuggestedQueryClick: a click on one of the suggestions shown.
handleSuggestedQueryClick(i) ==
    /\ i \in 1..Len(initialQuerySuggestions)
    /\ handleSendMessage(initialQuerySuggestions[i])

ResolvedMessageKeepingSender(placeholder, outcome) ==
    IF outcome.st = "fulfilled"
    THEN [placeholder EXCEPT
            !.text = IF outcome.text = << >>
                     THEN MsgText("empty-response", << >>, 0, FALSE)
                     ELSE MsgText("answer", outcome.text, 0, FALSE),
            !.isLoading = FALSE]
    ELSE [placeholder EXCEPT
            !.text = MsgText("error", AnswerErrorMessage(outcome.error), 0, FALSE),
            !.isLoading = FALSE]

\* App.getChatPlaceholder: the prompt asking for a group or URLs when there
\* are neither URLs nor a local context, else the prompt naming the parts
\* of the context (the group when it has URLs, the file or the folder).
getChatPlaceholder ==
    IF ~(Len(currentUrlsForChat) > 0) /\ ~(localContext # NoContext)
    THEN MsgText("placeholder-enable-chat", << >>, 0, FALSE)
    ELSE MsgText("placeholder-ask-about",
                 (IF Len(currentUrlsForChat) > 0 THEN << "group" >> ELSE << >>)
                 \o (IF localContext # NoContext
                     THEN << localContext.type >> ELSE << >>),
                 0, FALSE)

\* The message that takes the placeholder's place when the call settles.
ResolvedMessage(placeholder, outcome) ==
    IF outcome.st = "fulfilled"
    THEN [placeholder EXCEPT
            !.text = IF outcome.text = << >>
                     THEN MsgText("empty-response", << >>, 0, FALSE)
                     ELSE MsgText("answer", outcome.text, 0, FALSE),
            !.isLoading = FALSE]
    ELSE [placeholder EXCEPT
            !.text = MsgText("error", AnswerErrorMessage(outcome.error), 0, FALSE),
            !.sender = SYSTEM,
            !.isLoading = FALSE]

\* prevMessages.map(msg => msg.id === id ? resolved : msg)
Resolve(log, id, resolved) ==
    [i \in 1..Len(log) |-> IF log[i].id = id THEN resolved ELSE log[i]]

\* The awaited answer call settles: try / catch, and finally.
AnswerSettles(request, outcome) ==
    /\ request \in answersInFlight
    /\ answersInFlight' = answersInFlight \ { request }
    /\ chatMessages' = Resolve(chatMessages, request.placeholder.id,
                               ResolvedMessage(request.placeholder, outcome))
    /\ isLoading' = FALSE
    /\ lastOp' = Op("AnswerSettles", outcome.st)
    /\ UNCHANGED << urlGroups, activeUrlGroupId, isFetchingSuggestions,
                    initialQuerySuggestions, localContext,
                    isProcessingFiles, apiKey, suggestionsInFlight, readsInFlight,
                    pfVars >>

\* The awaited suggestion call settles: the rest of
\* fetchAndSetInitialSuggestions.
SuggestionSettles(request, outcome) ==
    LET parsed == ParseSuggestions(outcome.text) IN
    /\ BagIn(request, suggestionsInFlight)
    /\ suggestionsInFlight' = suggestionsInFlight (-) SetToBag({ request })
    /\ IF outcome.st = "fulfilled"
       THEN /\ initialQuerySuggestions' = Slice0(parsed.suggestions, 4)
            /\ IF parsed.notice = ""
               THEN UNCHANGED chatMessages
               ELSE /\ Len(chatMessages) < MaxLog
                    /\ chatMessages' =
                          Post(chatMessages,
                               SystemMessage(IF parsed.notice = "fmt"
                                             THEN "sys-err-suggestion-fmt"
                                             ELSE "sys-err-suggestion-parse",
                                             MsgText(parsed.notice, << >>, 0, FALSE)))
       ELSE /\ Len(chatMessages) < MaxLog
            /\ chatMessages' =
                  Post(chatMessages,
                       SystemMessage("sys-err-suggestion-fetch", MsgText("suggestion-fetch-error",
                                             SuggestionErrorMessage(outcome.error),
                                             0, FALSE)))
            /\ UNCHANGED initialQuerySuggestions
    /\ isFetchingSuggestions' = FALSE
    /\ lastOp' = Op("SuggestionSettles", outcome.st)
    /\ UNCHANGED << urlGroups, activeUrlGroupId, isLoading, localContext,
                    isProcessingFiles, apiKey, answersInFlight, readsInFlight,
                    pfVars >>

\* ------------------------------------------------- processFolder, stepwise
\* processFolder(files) has been called: the promises of the valid files are
\* pending.  The application around it is as it is after the first render,
\* with the credential unset (it plays no part here).
InitFolder ==
    /\ InitApp
    /\ ~apiKey
    /\ pfFiles \in FileLists
    /\ pfPromises = [i \in 1..Len(ValidFiles(pfFiles)) |-> [st |-> "pending"]]
    /\ pfSettled = << >>
    /\ pfReturn = NoReturn

\* One of the reads settles (then or catch of the promise pushed for it).
FilePromiseSettles(i) ==
    /\ pfPromises[i].st = "pending"
    /\ pfPromises' = [pfPromises EXCEPT ![i] = FilePromise(ValidFiles(pfFiles)[i])]
    /\ pfSettled' = Append(pfSettled, i)
    /\ lastOp' = Op("processFolder", "read-settled")
    /\ UNCHANGED << appVars, pfFiles, pfReturn >>

\* Promise.all settles once every read has, and processFolder returns.
PromiseAllSettles ==
    /\ pfReturn = NoReturn
    /\ \A i \in 1..Len(pfPromises) : pfPromises[i].st # "pending"
    /\ pfReturn' = [st |-> "resolved",
                    value |-> FolderResult(pfFiles, PromiseAll(pfPromises, pfSettled))]
    /\ lastOp' = Op("processFolder", "resolved")
    /\ UNCHANGED << appVars, pfFiles, pfPromises, pfSettled >>

\* -------------------------------------------------------------------- Spec
UrlSteps ==
    \/ \E in \in UrlInputs : handleAddUrl(in)
    \/ \E url \in RemovableUrls : handleRemoveUrl(url)

GroupSteps ==
    \/ \E i \in 1..Len(urlGroups) : handleSelectGroup(urlGroups[i].id)
    \/ \E name \in NameInputs : handleAddGroup(name)
    \/ \E confirmed \in BOOLEAN : RemoveGroupButton(confirmed)

\* The steps that make another group the active one.
SwitchSteps ==
    \/ \E i \in 1..Len(urlGroups) : handleSelectGroup(urlGroups[i].id)
    \/ handleAddGroup(<< " ", "A", " " >>)
    \/ RemoveGroupButton(TRUE)

UploadSteps ==
    \/ \E file \in FileInputs : handleFileUpload(file)
    \/ \E files \in FolderInputs : handleFolderUpload(files)
    \/ \E job \in readsInFlight : FileReadSettles(job)
    \/ \E job \in readsInFlight : FolderReadSettles(job)
    \/ handleLocalContextRemove

ChatSteps ==
    \/ \E query \in Queries : SendClick(query)
    \/ \E i \in 1..Len(initialQuerySuggestions) : handleSuggestedQueryClick(i)
    \/ \E request \in answersInFlight, outcome \in AnswerOutcomes :
          AnswerSettles(request, outcome)

SuggestionStepsOf(outcomes) ==
    \E request \in BagToSet(suggestionsInFlight), outcome \in outcomes :
        SuggestionSettles(request, outcome)

SuggestionSteps == SuggestionStepsOf(SuggestionOutcomes)

\* The suggestion calls answered well: what the upload and group handlers
\* are interleaved with.
PlainSuggestionSteps ==
    SuggestionStepsOf({ o \in SuggestionOutcomes :
                          o.st = "fulfilled" /\ ParseSuggestions(o.text).notice = "" })

\* Every handler and every settlement.
Next == UrlSteps \/ GroupSteps \/ UploadSteps \/ ChatSteps \/ SuggestionSteps

Spec == Init /\ [][Next]_vars

\* Uploads and the removal of the context, among switches of the group.
NextUpload == UploadSteps \/ SwitchSteps \/ PlainSuggestionSteps

SpecUpload == Init /\ [][NextUpload]_vars

\* processFolder on its own, one read settling at a time.
NextFolder ==
    \/ \E i \in 1..Len(pfPromises) : FilePromiseSettles(i)
    \/ PromiseAllSettles

SpecFolder == InitFolder /\ [][NextFolder]_vars

\* The files of the folders on which processFolder is followed to its end:
\* one that fails to read, one that fills the budget, two that fit.
FailurePool == { FileBad, FileMax, FileA, FileE }

InitFolderFair ==
    /\ InitFolder
    /\ \A i \in 1..Len(pfFiles) : pfFiles[i] \in FailurePool

\* processFolder with every read settling in the end (each is a promise of
\* the browser's file API, which fulfils or rejects) and the continuation
\* after Promise.all run by the event loop.
SpecFolderFair ==
    InitFolderFair /\ [][NextFolder]_vars /\ WF_vars(NextFolder)

\* The URL handlers among uploads.
NextUrls == UrlSteps \/ UploadSteps \/ PlainSuggestionSteps

SpecUrls == Init /\ [][NextUrls]_vars

\* The group and URL handlers.
NextGroups == GroupSteps \/ UrlSteps \/ PlainSuggestionSteps

SpecGroups == Init /\ [][NextGroups]_vars

\* The first group after the user has added n more URLs to it, none of
\* them the URL the model's add-URL input carries.
GroupsAfterAdding(n) ==
    [INITIAL_URL_GROUPS EXCEPT ![1].urls = @ \o [k \in 1..n |-> 100 + k]]

\* The first group one short of MAX_URLS, and exactly at MAX_URLS.
NearCapGroups ==
    { GroupsAfterAdding(MAX_URLS - 1 - Len(INITIAL_URL_GROUPS[1].urls)),
      GroupsAfterAdding(MAX_URLS - Len(INITIAL_URL_GROUPS[1].urls)) }

\* The state after the last of those additions: the log is the welcome
\* message and, with the credential set, the suggestion request for the
\* new list is in flight.
InitUrlCap ==
    /\ apiKey \in BOOLEAN
    /\ urlGroups \in NearCapGroups
    /\ activeUrlGroupId = urlGroups[1].id
    /\ chatMessages = << WelcomeMessage(urlGroups, urlGroups[1].id) >>
    /\ isLoading = FALSE
    /\ isFetchingSuggestions = apiKey
    /\ initialQuerySuggestions = << >>
    /\ localContext = NoContext
    /\ isProcessingFiles = FALSE
    /\ answersInFlight = { }
    /\ suggestionsInFlight =
          IF apiKey THEN SetToBag({ SuggestionCall(urlGroups[1].urls) })
          ELSE EmptyBag
    /\ readsInFlight = { }
    /\ lastOp = Op("handleAddUrl", "added")
    /\ NoFolderJob

\* The group and URL handlers from there on; the settlements of the
\* suggestion requests leave the group collection alone and are left out.
NextUrlCap == GroupSteps \/ UrlSteps

SpecUrlCap == InitUrlCap /\ [][NextUrlCap]_vars

\* Sends, suggestion clicks and the settlements of both calls, among
\* switches of the group.
NextChat == ChatSteps \/ SuggestionSteps \/ SwitchSteps

SpecChat == Init /\ [][NextChat]_vars


\* -------------------------------------------------------------- properties
\* The elements of a sequence.
Range(seq) == { seq[i] : i \in 1..Len(seq) }

RECURSIVE IncludedChars(_)
\* The sum of the text lengths of a sequence of {name, content} results.
IncludedChars(results) ==
    IF results = << >> THEN 0
    ELSE TextLength(Head(results).content) + IncludedChars(Tail(results))

\* C1: whenever a local context is attached, by a single-file upload or by
\* a folder upload, the length of its content is at most MAX_CONTEXT_CHARS.
\* (The folder's content also holds a header line for each file and the
\* separators between the files.)
C1_ContentWithinBudget ==
    localContext # NoContext =>
        TextLength(localContext.content) <= MAX_CONTEXT_CHARS

\* The part of C1 that the single-file upload keeps.
C1_FileContentWithinBudget ==
    localContext.type = "file" =>
        TextLength(localContext.content) <= MAX_CONTEXT_CHARS

\* C2: processFolder returns processedCount <= totalValidFileCount, and the
\* text lengths of the files it included sum to at most MAX_CONTEXT_CHARS.
C2_FolderCounts ==
    pfReturn.st = "resolved" =>
        /\ pfReturn.value.processedCount <= pfReturn.value.totalValidFileCount
        /\ IncludedChars(pfReturn.value.finalProcessedFiles) <= MAX_CONTEXT_CHARS

\* processFolder returned having left out a file with text for the budget:
\* of three valid files of 400,000 characters two were included.
C2_Witness ==
    /\ pfReturn.st = "resolved"
    /\ pfReturn.value.totalValidFileCount = 3
    /\ pfReturn.value.processedCount = 2
    /\ IncludedChars(pfReturn.value.finalProcessedFiles) = 800000

\* The files with an extracted text, in discovery order: the order of the
\* FileList, the unreadable ones left out.
DiscoveryOrder ==
    NonNull([i \in 1..Len(ValidFiles(pfFiles)) |-> FilePromise(ValidFiles(pfFiles)[i])])

\* The k-th file in discovery order has text, was not included, and adding
\* it to the included files before it would have exceeded the budget.
BudgetExcluded(k) ==
    LET r == DiscoveryOrder[k]
        before == SelectSeqBy(SubSeq(DiscoveryOrder, 1, k - 1),
                              Range(pfReturn.value.finalProcessedFiles)) IN
    /\ HasContent(r.content)
    /\ r \notin Range(pfReturn.value.finalProcessedFiles)
    /\ IncludedChars(before) + TextLength(r.content) > MAX_CONTEXT_CHARS

\* C3: the included files are in discovery order, and once a file is left
\* out because adding it would exceed the budget, every file after it in
\* that order is left out too.
C3_PrefixGreedy ==
    pfReturn.st = "resolved" =>
        /\ pfReturn.value.finalProcessedFiles =
              SelectSeqBy(DiscoveryOrder, Range(pfReturn.value.finalProcessedFiles))
        /\ \A k \in 1..Len(DiscoveryOrder) :
              BudgetExcluded(k) =>
                 \A j \in (k + 1)..Len(DiscoveryOrder) :
                    DiscoveryOrder[j] \notin Range(pfReturn.value.finalProcessedFiles)

\* processFolder returned having left out a file for the budget and, after
\* it, a file with text that would still have fitted beside the included.
C3_Witness ==
    /\ pfReturn.st = "resolved"
    /\ \E k \in 1..Len(DiscoveryOrder) :
          /\ BudgetExcluded(k)
          /\ \E j \in (k + 1)..Len(DiscoveryOrder) :
                /\ HasContent(DiscoveryOrder[j].content)
                /\ IncludedChars(pfReturn.value.finalProcessedFiles)
                      + TextLength(DiscoveryOrder[j].content) <= MAX_CONTEXT_CHARS

\* p is the text t cut after TextLength(p) of its characters.
IsPrefixOf(p, t) ==
    /\ Len(p) <= Len(t)
    /\ \A i \in 1..(Len(p) - 1) : p[i] = t[i]
    /\ p # << >> => p[Len(p)].s = t[Len(p)].s /\ p[Len(p)].n <= t[Len(p)].n

\* C4: when the read of a single-file upload succeeds, the attached content
\* is the first MAX_CONTEXT_CHARS characters of the extracted text, with
\* the truncation notice in the system message, if the text is longer than
\* that; otherwise it is the extracted text, without the notice.  count is
\* 1 in both cases.
C4_SingleFileUpload ==
    [][ \A job \in readsInFlight :
          ( /\ job.kind = "file"
            /\ job \notin readsInFlight'
            /\ ReadFile(job.files[1]).st = "fulfilled" ) =>
             LET text == ReadFile(job.files[1]).value
                 said == chatMessages'[Len(chatMessages')] IN
             /\ localContext'.type = "file"
             /\ localContext'.count = 1
             /\ said.sender = SYSTEM
             /\ said.text.tpl = "file-read"
             /\ IF TextLength(text) > MAX_CONTEXT_CHARS
                THEN /\ TextLength(localContext'.content) = MAX_CONTEXT_CHARS
                     /\ IsPrefixOf(localContext'.content, text)
                     /\ said.text.flag
                ELSE /\ localContext'.content = text
                     /\ ~said.text.flag ]_vars

\* A file whose text is longer than the budget was read: the context holds
\* MAX_CONTEXT_CHARS characters and the message carries the notice.
C4_Witness ==
    /\ lastOp = Op("FileReadSettles", "attached")
    /\ localContext.type = "file"
    /\ localContext.count = 1
    /\ TextLength(localContext.content) = MAX_CONTEXT_CHARS
    /\ chatMessages[Len(chatMessages)].text.flag

\* C5: a step that makes another group the active one (selection, a new
\* group, removal of the active group) leaves a log of exactly one message,
\* sent by SYSTEM, and no local context.
C5_SwitchResets ==
    [][ activeUrlGroupId' # activeUrlGroupId =>
           /\ Len(chatMessages') = 1
           /\ chatMessages'[1].sender = SYSTEM
           /\ localContext' = NoContext ]_vars

\* The group was switched by selection while a read started under the
\* previous group is still going on: the log is the welcome message of the
\* selected group and no context is attached.
C5_Witness ==
    /\ lastOp = Op("handleSelectGroup", "selected")
    /\ activeUrlGroupId # INITIAL_URL_GROUPS[1].id
    /\ isProcessingFiles
    /\ Len(chatMessages) = 1
    /\ chatMessages[1].id.group = activeUrlGroupId
    /\ localContext = NoContext

\* C6: handleRemoveGroup for the active group changes neither the groups
\* nor the active id when there is one group; with more groups and the
\* confirmation given it removes the group and makes the first remaining
\* group the active one; with the confirmation declined it changes nothing.
C6_RemoveGroup ==
    [][ \A confirmed \in BOOLEAN :
          RemoveGroupButton(confirmed) =>
             IF Len(urlGroups) = 1
             THEN UNCHANGED << urlGroups, activeUrlGroupId >>
             ELSE IF confirmed
             THEN LET remaining == SelectSeqBy(urlGroups,
                                      { g \in Range(urlGroups) : g.id # activeUrlGroupId }) IN
                  /\ urlGroups' = remaining
                  /\ activeUrlGroupId' = remaining[1].id
             ELSE UNCHANGED << appVars, pfVars >> ]_vars

\* The remove button was pressed with one group left (after a removal that
\* promoted it) and the call was rejected.
C6_Witness ==
    /\ lastOp = Op("handleRemoveGroup", "rejected")
    /\ Len(urlGroups) = 1
    /\ activeUrlGroupId = urlGroups[1].id

\* C7: the group collection is never empty and activeUrlGroupId is the id
\* of one of its groups.
C7_ActiveGroupExists ==
    /\ Len(urlGroups) >= 1
    /\ \E i \in 1..Len(urlGroups) : urlGroups[i].id = activeUrlGroupId

\* Both initial groups were removed after a group was added: the added
\* group is the only one and the active one.
C7_Witness ==
    /\ lastOp = Op("handleRemoveGroup", "removed")
    /\ Len(urlGroups) = 1
    /\ urlGroups[1].name = << "A" >>
    /\ activeUrlGroupId = urlGroups[1].id

\* The calls awaiting the backend.
CallsInFlight ==
    { r.call : r \in answersInFlight } \cup BagToSet(suggestionsInFlight)

\* C8: no call carries both a grounding tool and the JSON response mode:
\* an answer call sets no response type, a suggestion call passes no tool.
C8_ToolXorJson ==
    /\ \A c \in CallsInFlight :
          ~(c.tools # << >> /\ c.responseMimeType = "application/json")
    /\ \A r \in answersInFlight : r.call.responseMimeType = ""
    /\ \A c \in BagToSet(suggestionsInFlight) : c.tools = << >>

\* An answer call with the grounding tool and a suggestion call in JSON mode
\* await the backend at once.
C8_Witness ==
    /\ \E r \in answersInFlight : r.call.tools # << >>
    /\ \E c \in BagToSet(suggestionsInFlight) :
          c.responseMimeType = "application/json"

\* C9: while the credential is unset no call of either kind awaits the
\* backend, and a send with a non-blank query appends one SYSTEM
\* configuration-error message, adds no user message and no placeholder,
\* and leaves the busy flag unset.
C9_NoKeyNoCalls ==
    /\ [](~apiKey => answersInFlight = { } /\ suggestionsInFlight = EmptyBag)
    /\ [][ \A query \in Queries :
             (~apiKey /\ Trim(query) # << >> /\ SendClick(query)) =>
                /\ Len(chatMessages') = Len(chatMessages) + 1
                /\ SubSeq(chatMessages', 1, Len(chatMessages)) = chatMessages
                /\ chatMessages'[Len(chatMessages')].sender = SYSTEM
                /\ chatMessages'[Len(chatMessages')].text.tpl = "api-key-missing"
                /\ ~chatMessages'[Len(chatMessages')].isLoading
                /\ ~isLoading'
                /\ answersInFlight' = { } ]_vars

\* With the credential unset a query was sent: the log ends with the
\* configuration error and nothing awaits the backend.
C9_Witness ==
    /\ ~apiKey
    /\ lastOp = Op("handleSendMessage", "no-key")
    /\ Len(chatMessages) = 2
    /\ chatMessages[2].text.tpl = "api-key-missing"
    /\ answersInFlight = { }

\* C10: at most one answer request awaits the backend and at most one
\* message of the log has isLoading set.
C10_OneSendPending ==
    /\ Cardinality(answersInFlight) <= 1
    /\ Cardinality({ i \in 1..Len(chatMessages) : chatMessages[i].isLoading }) <= 1

\* A query was sent while an answer was awaited, and was ignored: one
\* request is in flight and its placeholder is the one loading message.
C10_Witness ==
    /\ lastOp = Op("handleSendMessage", "busy")
    /\ isLoading
    /\ Cardinality(answersInFlight) = 1
    /\ \E r \in answersInFlight :
          \E i \in 1..Len(chatMessages) :
             chatMessages[i] = r.placeholder /\ chatMessages[i].isLoading

\* C11: a send that issues a call issues exactly one, and its settlement
\* issues none.  The settlement clears the busy flag and leaves no message
\* loading: the message with the placeholder's id becomes, in place, the
\* answer (the fixed sentence for a response without text) from MODEL on
\* success and an error text from SYSTEM on failure, with isLoading unset;
\* every other message of the log is as it was.
C11_SettlesInPlace ==
    /\ [][ \A query \in Queries :
             (SendClick(query) /\ answersInFlight' # answersInFlight) =>
                \E request \in answersInFlight' :
                   /\ request \notin answersInFlight
                   /\ answersInFlight' = answersInFlight \cup { request } ]_vars
    /\ [][ \A request \in answersInFlight, outcome \in AnswerOutcomes :
             AnswerSettles(request, outcome) =>
                /\ answersInFlight' = answersInFlight \ { request }
                /\ suggestionsInFlight' = suggestionsInFlight
                /\ ~isLoading'
                /\ Len(chatMessages') = Len(chatMessages)
                /\ \A i \in 1..Len(chatMessages) :
                      /\ ~chatMessages'[i].isLoading
                      /\ IF chatMessages[i].id # request.placeholder.id
                         THEN chatMessages'[i] = chatMessages[i]
                         ELSE /\ chatMessages'[i].id = chatMessages[i].id
                              /\ IF outcome.st = "fulfilled"
                                 THEN /\ chatMessages'[i].sender = MODEL
                                      /\ chatMessages'[i].text.tpl
                                            \in { "answer", "empty-response" }
                                      /\ chatMessages'[i].text.strs = outcome.text
                                 ELSE /\ chatMessages'[i].sender = SYSTEM
                                      /\ chatMessages'[i].text.tpl = "error" ]_vars

\* A call failed and its placeholder, still in the log after the user's
\* message, has become the error message from SYSTEM.
C11_Witness ==
    /\ lastOp = Op("AnswerSettles", "rejected")
    /\ Len(chatMessages) = 3
    /\ chatMessages[2].sender = USER
    /\ chatMessages[3].id.prefix = "model-response"
    /\ chatMessages[3].sender = SYSTEM
    /\ chatMessages[3].text.tpl = "error"
    /\ ~chatMessages[3].isLoading
    /\ ~isLoading
    /\ answersInFlight = { }

\* The valid files of the FileList whose extraction fails.
FailedFiles ==
    { f \in Range(ValidFiles(pfFiles)) : ReadFile(f).st = "rejected" }

\* The FileList without the files whose extraction fails.
WithoutFailed ==
    SelectSeqBy(pfFiles, FilePool \ FailedFiles)

\* C12: processFolder resolves whatever reads fail, no failed file is among
\* the included ones, and the included files, their count and the merged
\* text are those of the same FileList without the failed files.
C12_FailureKeepsBatch ==
    /\ <>(pfReturn.st = "resolved")
    /\ [](pfReturn.st = "resolved" =>
            /\ \A f \in FailedFiles :
                  \A i \in 1..Len(pfReturn.value.finalProcessedFiles) :
                     pfReturn.value.finalProcessedFiles[i].name # f.path
            /\ pfReturn.value.finalProcessedFiles =
                  processFolder(WithoutFailed).finalProcessedFiles
            /\ pfReturn.value.fullContent = processFolder(WithoutFailed).fullContent
            /\ pfReturn.value.processedCount =
                  processFolder(WithoutFailed).processedCount)

\* processFolder resolved for a FileList whose first valid file failed to
\* read, with a later file included.
C12_Witness ==
    /\ pfReturn.st = "resolved"
    /\ ValidFiles(pfFiles) # << >>
    /\ ValidFiles(pfFiles)[1] \in FailedFiles
    /\ pfReturn.value.processedCount >= 1
    /\ pfReturn.value.totalValidFileCount > pfReturn.value.processedCount

\* The fragments a text is made of.
FragmentsOf(t) == { t[i].s : i \in 1..Len(t) }

\* C13: when a folder read attaches a context, its message carries the
\* not-loaded notice exactly when processedCount < totalValidFileCount, and
\* the number in it is totalValidFileCount - processedCount.  For three
\* valid files of 400,000 characters each the first two are included, the
\* third is not, the count is 2 and one file is reported as not loaded.
C13_NotLoadedNotice ==
    [][ \A job \in readsInFlight :
          ( /\ job.kind = "folder"
            /\ job \notin readsInFlight'
            /\ processFolder(job.files).processedCount >= 1 ) =>
             LET result == processFolder(job.files)
                 said == chatMessages'[Len(chatMessages')] IN
             /\ said.sender = SYSTEM
             /\ said.text.tpl = "folder-read"
             /\ said.text.flag <=>
                   result.processedCount < result.totalValidFileCount
             /\ said.text.flag =>
                   said.text.num = result.totalValidFileCount - result.processedCount
             /\ localContext'.count = result.processedCount
             /\ job.files = << FileA, FileB, FileC >> =>
                   /\ localContext'.count = 2
                   /\ said.text.flag
                   /\ said.text.num = 1
                   /\ { "a", "b" } \subseteq FragmentsOf(localContext'.content)
                   /\ "c" \notin FragmentsOf(localContext'.content) ]_vars

\* The folder of three files of 400,000 characters was read: two files are
\* in the context and the message reports one as not loaded.
C13_Witness ==
    /\ lastOp = Op("FolderReadSettles", "attached")
    /\ localContext.type = "folder"
    /\ localContext.count = 2
    /\ { "a", "b" } \subseteq FragmentsOf(localContext.content)
    /\ chatMessages[Len(chatMessages)].text.tpl = "folder-read"
    /\ chatMessages[Len(chatMessages)].text.flag
    /\ chatMessages[Len(chatMessages)].text.num = 1

\* A non-empty response text that JSON.parse rejects.
DecodeFails(text) ==
    ~text.empty /\ ((text.fenced /\ text.innerEmpty) \/ ~text.json.parses)

\* The response text decodes to an object whose suggestions member is an
\* array.
HasSuggestionsArray(text) ==
    ~text.empty /\ ~DecodeFails(text)
    /\ text.json.type = "object" /\ text.json.isArray

\* The response text decodes to the expected shape: an object whose
\* suggestions member is an array of strings.
ArrayOfStrings(text) ==
    /\ HasSuggestionsArray(text)
    /\ \A i \in 1..Len(text.json.items) : text.json.items[i].isString

\* The log grew by one message, sent by SYSTEM.
OneSystemMessageAppended ==
    /\ Len(chatMessages') = Len(chatMessages) + 1
    /\ SubSeq(chatMessages', 1, Len(chatMessages)) = chatMessages
    /\ chatMessages'[Len(chatMessages')].sender = SYSTEM

C15_EmptyGroupNoSuggestions ==
    (Len(currentUrlsForChat) = 0 /\ localContext = NoContext) =>
        /\ getChatPlaceholder.tpl = "placeholder-enable-chat"
        /\ initialQuerySuggestions = << >>

\* The step is an accepted add of a URL or the removal of a URL.
UrlListStep ==
    \/ \E in \in UrlInputs : handleAddUrl(in) /\ urlGroups' # urlGroups
    \/ \E url \in RemovableUrls : handleRemoveUrl(url)

\* C16: adding a URL to the active group or removing one from it changes
\* that group's URL list only: the messages of the log stay, in order, and
\* an attached local context stays attached.
C16_UrlChangeFrame ==
    [][ UrlListStep =>
           /\ Len(chatMessages') >= Len(chatMessages)
           /\ SubSeq(chatMessages', 1, Len(chatMessages)) = chatMessages
           /\ localContext' = localContext
           /\ activeUrlGroupId' = activeUrlGroupId
           /\ Len(urlGroups') = Len(urlGroups)
           /\ \A i \in 1..Len(urlGroups) :
                 /\ urlGroups'[i].id = urlGroups[i].id
                 /\ urlGroups'[i].name = urlGroups[i].name
                 /\ urlGroups[i].id # activeUrlGroupId =>
                       urlGroups'[i].urls = urlGroups[i].urls ]_vars


\* ---- C17 ----

NoDuplicates(seq) ==
    \A i, j \in 1..Len(seq) : seq[i] = seq[j] => i = j

GroupCollectionWellFormed ==
    /\ \A i \in 1..Len(urlGroups) :
          /\ NoDuplicates(urlGroups[i].urls)
          /\ Len(urlGroups[i].urls) <= MAX_URLS
    /\ \A i, j \in 1..Len(urlGroups) :
          urlGroups[i].name = urlGroups[j].name => i = j

AddUrlWouldViolate(in) ==
    /\ ~in.blank
    /\ in.parses
    /\ \/ Len(currentUrlsForChat) >= MAX_URLS
       \/ Includes(currentUrlsForChat, in.url)

AddGroupWouldViolate(name) ==
    \/ Trim(name) = << >>
    \/ \E i \in 1..Len(urlGroups) : urlGroups[i].name = Trim(name)

\* C17: every group's URL list has no duplicate and at most MAX_URLS
\* entries, and no two groups have the same name; an add-URL that would
\* exceed the cap or repeat a URL of the active group, and an add-group
\* whose trimmed name is blank or already used, leave the group collection
\* unchanged.
C17_GroupCollectionKept ==
    /\ []GroupCollectionWellFormed
    /\ [][ /\ \A in \in UrlInputs :
                AddUrlWouldViolate(in) /\ handleAddUrl(in)
                    => urlGroups' = urlGroups
           /\ \A name \in NameInputs :
                AddGroupWouldViolate(name) /\ handleAddGroup(name)
                    => urlGroups' = urlGroups ]_vars

\* The active group grew from MAX_URLS - 1 to MAX_URLS entries, a group was
\* added, and the last add-URL on the full group was rejected.
C17_Witness ==
    /\ Len(currentUrlsForChat) = MAX_URLS
    /\ Includes(currentUrlsForChat, 25)
    /\ Len(urlGroups) > Len(INITIAL_URL_GROUPS)
    /\ lastOp = Op("handleAddUrl", "rejected")


\* ---- C18 ----

RECURSIVE Sequentially(_, _)
\* The eligible files read one after the other in discovery order: a file
\* whose read fails or whose text is blank is passed over, and the first
\* file whose text does not fit the remaining budget ends the walk.
Sequentially(eligible, totalChars) ==
    IF eligible = << >> THEN << >>
    ELSE LET r == FilePromise(Head(eligible)) IN
         IF r.st = "null" \/ ~HasContent(r.content)
         THEN Sequentially(Tail(eligible), totalChars)
         ELSE IF totalChars + TextLength(r.content) > MAX_CONTEXT_CHARS
              THEN << >>
              ELSE << r >> \o Sequentially(Tail(eligible),
                                           totalChars + TextLength(r.content))

\* C18: whatever the order in which the extractions of a folder upload
\* complete, the included files and the order of their blocks in the merged
\* text are those of processing the eligible files one after the other in
\* discovery order.
C18_OrderIndependent ==
    pfReturn.st = "resolved" =>
        LET sequential == Sequentially(ValidFiles(pfFiles), 0) IN
        /\ pfReturn.value.finalProcessedFiles = sequential
        /\ pfReturn.value.fullContent = FullContent(sequential)

\* Three eligible files whose extractions completed last file first, two of
\* them included and the third cut off by the budget.
C18_Witness ==
    /\ pfReturn.st = "resolved"
    /\ pfReturn.value.totalValidFileCount = 3
    /\ pfReturn.value.processedCount = 2
    /\ pfSettled = << 3, 2, 1 >>


\* ---- C19 ----

\* The number of eligible files of a folder whose text was extracted and is
\* not blank, and that processFolder left out: the files the budget cut off.
BudgetCutOff(files) ==
    LET valid == ValidFiles(files)
        final == processFolder(files).finalProcessedFiles IN
    Cardinality({ k \in 1..Len(valid) :
                    /\ FilePromise(valid[k]).st = "result"
                    /\ HasContent(FilePromise(valid[k]).content)
                    /\ FilePromise(valid[k]) \notin Range(final) })

\* C19: the number of files the folder-upload notice reports as not loaded
\* because the total length limit was exceeded is the number of eligible
\* files the budget cut off; files whose extraction failed or whose text
\* was blank are not counted in it.
C19_NoticeCountsBudgetCut ==
    [][ \A job \in readsInFlight :
          ( /\ job.kind = "folder"
            /\ job \notin readsInFlight'
            /\ Len(chatMessages') > Len(chatMessages)
            /\ chatMessages'[Len(chatMessages')].text.tpl = "folder-read"
            /\ chatMessages'[Len(chatMessages')].text.flag ) =>
             chatMessages'[Len(chatMessages')].text.num = BudgetCutOff(job.files)
      ]_vars


\* ---- C20 ----

\* The last operation made another group the active one.  Uploads are
\* disabled while a read is going on, so a read in flight in such a state
\* was started before the switch.
ActiveGroupJustSwitched ==
    lastOp \in { Op("handleSelectGroup", "selected"),
                 Op("handleAddGroup", "added"),
                 Op("handleRemoveGroup", "removed") }

\* C20: a file or folder read started before a switch of the active group
\* attaches no local context when it completes after the switch.
C20_StaleReadNotAttached ==
    [][ ( /\ ActiveGroupJustSwitched
          /\ \E job \in readsInFlight : job \notin readsInFlight' ) =>
             localContext' = NoContext ]_vars


\* ---- C21 ----

\* A suggestion request settles in this step that was issued for a URL list
\* other than the active group's present one.
StaleSuggestionSettles ==
    \E request \in BagToSet(suggestionsInFlight) :
        /\ suggestionsInFlight' = suggestionsInFlight (-) SetToBag({ request })
        /\ request.urls # currentUrlsForChat

\* The fetching flag is set while any suggestion request is in flight.
FetchingWhileInFlight ==
    BagCardinality(suggestionsInFlight) > 0 => isFetchingSuggestions

\* The response to a request issued for a previous group or a previous URL
\* list does not populate the suggestion list.
StaleResponseDropped ==
    [][ StaleSuggestionSettles => initialQuerySuggestions' = << >> ]_vars

\* C21: the items of a non-empty suggestion list come from the response to
\* a request issued for the present URL list of the active group, a
\* response to a request issued for a previous group or URL list never
\* populates the list, and the fetching flag is set for as long as any
\* suggestion request is in flight.
C21_SuggestionsOfActiveList ==
    []FetchingWhileInFlight /\ StaleResponseDropped

====
